---------------------------- MODULE Spec2Model ----------------------------
(***************************************************************************)
(* The offline ingestion script backend/app/db/build_the_brain.py: the     *)
(* PDF text and image extractors, the text chunker, the image describer,   *)
(* the card store and the collection initializer, and the __main__ block   *)
(* that runs them once, in order.                                          *)
(*                                                                         *)
(* Strings.  A formatted string (a card id, a file name, a printed number) *)
(* is the sequence of its pieces, numbers written in decimal digit by      *)
(* digit.  A page text is  [ws, len] : ws whitespace characters followed   *)
(* by len characters that are neither whitespace nor separators.  A piece  *)
(* of text (a chunk, a description) is  [off, len] : where it starts in    *)
(* the text it was cut from and how many characters it has.                *)
(***************************************************************************)
EXTENDS Integers, Sequences, FiniteSets

\* ------------------------------------------------------------- bounds

MaxPages == 2
MaxImages == 2
MaxCards == 201

\* ------------------------------------------------- program constants

IMAGE_OUTPUT_FOLDER == "images"
DB_COLLECTION_NAME == "oxford_multimodal"
chunk_size == 1000
chunk_overlap == 200
batch_size == 100

VARIABLES
    api_key,          \* os.getenv("GOOGLE_API_KEY"): "unset" stands for None
    pdf,              \* the pages of the PDF: [text, images] per page
    pdf_ok,           \* whether pymupdf.open(pdf_path) succeeds
    db,               \* the persistent collection on disk: [exists, metric, docs]
    db_collection,    \* the handle main holds: "none" or the collection's name
    calls,            \* the calls made on the chromadb client and collection
    stdout,           \* what was printed
    exit_code,        \* -1 while running, then the process's exit status
    files,            \* the image files written under the output folder
    pc,               \* the statement of __main__ that runs next
    fn,               \* inside the function called at pc: "call" or "loop"
    raw_text_data,    \* main's raw_text_data
    text_cards,       \* main's text_cards
    image_file_paths, \* main's image_file_paths
    image_cards,      \* main's image_cards (create_image_cards' local list)
    img,              \* create_image_cards: images taken from image_paths so far
    cards,            \* store_cards_in_database: its cards argument
    card_type,        \* store_cards_in_database: its card_type argument
    i                 \* store_cards_in_database: the batch offset i

vars == <<api_key, pdf, pdf_ok, db, db_collection, calls, stdout, exit_code,
          files, pc, fn, raw_text_data, text_cards, image_file_paths,
          image_cards, img, cards, card_type, i>>

\* ------------------------------------------------------------ strings

Digit(d) == <<"0", "1", "2", "3", "4", "5", "6", "7", "8", "9">>[d + 1]

RECURSIVE Str(_)
\* str(n) of a non-negative integer, as the f-strings format it
Str(n) == IF n < 10 THEN <<Digit(n)>> ELSE Str(n \div 10) \o <<Digit(n % 10)>>

\* `if text:` / `if not api_key:` : a string is true when it is not empty
Truthy(text) == text.ws + text.len > 0

Min(a, b) == IF a < b THEN a ELSE b
Max(a, b) == IF a > b THEN a ELSE b

Range(s) == {s[k] : k \in 1..Len(s)}

Distinct(s) == Cardinality(Range(s)) = Len(s)

\* one print(...) call: the message and the value formatted into it
Line(m, a) == [msg |-> m, arg |-> a]

\* ----------------------------------------------- extract_text_from_pdf

PageRecordOf(text, number) ==
    [page_content |-> text,
     metadata |-> [source |-> "Oxford Handbook", page |-> number + 1]]

RECURSIVE extract_text_from_pdf(_)
\* the records of the pages of doc, page.number being the 0-based position
extract_text_from_pdf(doc) ==
    IF doc = <<>> THEN <<>>
    ELSE LET n == Len(doc)
             before == extract_text_from_pdf(SubSeq(doc, 1, n - 1))
             text == doc[n].text
         IN  IF Truthy(text)
             THEN Append(before, PageRecordOf(text, n - 1))
             ELSE before

\* --------------------------------------------- extract_images_from_pdf

\* the slip of leaving the page out of the name: f"img_{img_index}.png"
image_filename_without_page(page_num, img_index) ==
    <<"img_">> \o Str(img_index) \o <<".png">>

\* f"page_{page_num + 1}_img_{img_index}.png"
image_filename(page_num, img_index) ==
    <<"page_">> \o Str(page_num + 1) \o <<"_img_">> \o Str(img_index) \o <<".png">>

\* os.path.join(output_folder, image_filename)
image_path_of(output_folder, page_num, img_index) ==
    <<output_folder, "/">> \o image_filename(page_num, img_index)

PagePaths(doc, page_num, output_folder) ==
    [k \in 1..doc[page_num + 1].images |->
        image_path_of(output_folder, page_num, k - 1)]

RECURSIVE extract_images_from_pdf(_, _)
\* the paths written for doc, page after page, image after image
extract_images_from_pdf(doc, output_folder) ==
    IF doc = <<>> THEN <<>>
    ELSE LET n == Len(doc)
         IN  extract_images_from_pdf(SubSeq(doc, 1, n - 1), output_folder)
             \o PagePaths(doc, n - 1, output_folder)

\* --------------------------------------------------- create_text_cards

\* RecursiveCharacterTextSplitter(chunk_size, chunk_overlap).split_text on a
\* text without separators inside: windows of chunk_size characters, each
\* starting chunk_size - chunk_overlap after the one before, stripped of
\* whitespace, the empty ones dropped.
NumWindows(total) ==
    IF total = 0 THEN 0
    ELSE IF total <= chunk_size THEN 1
    ELSE 1 + ((total - chunk_size) + (chunk_size - chunk_overlap) - 1)
               \div (chunk_size - chunk_overlap)

Window(text, k) ==
    LET total == text.ws + text.len
        start == k * (chunk_size - chunk_overlap)
        stop == Min(start + chunk_size, total)
        lo == Max(start, text.ws)
    IN  [off |-> lo, len |-> Max(stop - lo, 0)]

split_text(text) ==
    LET windows == [k \in 1..NumWindows(text.ws + text.len) |-> Window(text, k - 1)]
        NonEmpty(c) == c.len > 0
    IN  SelectSeq(windows, NonEmpty)

TextCardOf(item, chunk, chunk_id) ==
    [content |-> chunk,
     metadata |-> [source |-> item.metadata.source, page |-> item.metadata.page,
                   chunk_id |-> chunk_id, type |-> "text"]]

CardsOfItem(item) ==
    LET chunks == split_text(item.page_content)
    IN  [k \in 1..Len(chunks) |-> TextCardOf(item, chunks[k], k - 1)]

RECURSIVE create_text_cards_numbered_through(_)
\* the slip of one counter for the whole document: the chunk_id of a card is
\* its position among all the cards
create_text_cards_numbered_through(text_data) ==
    IF text_data = <<>> THEN <<>>
    ELSE LET n == Len(text_data)
             before == create_text_cards_numbered_through(SubSeq(text_data, 1, n - 1))
             here == CardsOfItem(text_data[n])
         IN  before \o [k \in 1..Len(here) |->
                           [here[k] EXCEPT !.metadata.chunk_id = Len(before) + k - 1]]

RECURSIVE create_text_cards(_)
create_text_cards(text_data) ==
    IF text_data = <<>> THEN <<>>
    ELSE LET n == Len(text_data)
         IN  create_text_cards(SubSeq(text_data, 1, n - 1)) \o CardsOfItem(text_data[n])

\* --------------------------------------------------- create_image_cards

\* what Image.open and vision_model.generate_content(...).text can do for an image
VisionOutcomes == {"load_error", "api_error", "empty_text", "text"}

Description(outcome) == [off |-> 0, len |-> IF outcome = "text" THEN 5 ELSE 0]

ImageCardOf(description, image_path) ==
    [content |-> description,
     metadata |-> [source |-> "Oxford Handbook", image_path |-> image_path,
                   type |-> "image"]]

\* ----------------------------------------------- store_cards_in_database

card_id(type, index) == <<type, "_">> \o Str(index)

\* batch = cards[i:i + batch_size]
Batch(all, offset) == SubSeq(all, offset + 1, Min(offset + batch_size, Len(all)))

BatchDocuments(batch) == [j \in 1..Len(batch) |-> batch[j].content]
BatchMetadatas(batch) == [j \in 1..Len(batch) |-> batch[j].metadata]
\* the slip of numbering within the batch: f"{card_type}_{j}"
BatchIdsWithinBatch(batch, type, offset) == [j \in 1..Len(batch) |-> card_id(type, j - 1)]

\* ids.append(f"{card_type}_{i + j}")
BatchIds(batch, type, offset) == [j \in 1..Len(batch) |-> card_id(type, offset + (j - 1))]

\* collection.add: the records of the batch whose id the collection does not hold
CollectionAdd(docs, documents, metadatas, ids) ==
    docs \cup {[id |-> ids[j], document |-> documents[j], metadata |-> metadatas[j]] :
                 j \in {k \in 1..Len(ids) : \A d \in docs : d.id # ids[k]}}

\* --------------------------------------------------- initialize_database

\* the slip of leaving the metadata out: the store's default metric
create_collection_default_metric(name) ==
    [exists |-> TRUE, name |-> name, metric |-> "l2", docs |-> {}]

\* client.create_collection(name, metadata={"hnsw:space": "cosine"}) on a
\* database that does not hold the collection
create_collection(name) == [exists |-> TRUE, name |-> name, metric |-> "cosine", docs |-> {}]

\* what client.create_collection can raise
CreateErrors == {"already_exists", "error"}

CreateCall(result) ==
    [op |-> "create_collection", name |-> DB_COLLECTION_NAME, metric |-> "cosine",
     result |-> result]
GetCall(result) == [op |-> "get_collection", name |-> DB_COLLECTION_NAME, result |-> result]
AddCall(documents, metadatas, ids, result) ==
    [op |-> "add", documents |-> documents, metadatas |-> metadatas, ids |-> ids,
     result |-> result]
CountCall(n) == [op |-> "count", value |-> n]

\* ------------------------------------------------------------- inputs

\* the empty text, a blank, a word after a blank, and a text of three chunks
Texts ==
    {[ws |-> 0, len |-> 0], [ws |-> 1, len |-> 0], [ws |-> 1, len |-> 1],
     [ws |-> 0, len |-> 2 * chunk_size + 500]}
Pages == [text : Texts, images : 0..MaxImages]

RECURSIVE ImageCount(_)
ImageCount(doc) ==
    IF doc = <<>> THEN 0 ELSE doc[1].images + ImageCount(Tail(doc))

PDFs == {doc \in UNION {[1..n -> Pages] : n \in 0..MaxPages} : ImageCount(doc) <= MaxImages}

NoCollection == [exists |-> FALSE, name |-> DB_COLLECTION_NAME, metric |-> "none", docs |-> {}]

\* what an earlier run of the script on a one-page, one-image PDF left behind
EarlierDocs ==
    {[id |-> card_id("text", 0), document |-> [off |-> 0, len |-> 7],
      metadata |-> [source |-> "Oxford Handbook", page |-> 1, chunk_id |-> 0,
                    type |-> "text"]],
     [id |-> card_id("image", 0), document |-> [off |-> 0, len |-> 9],
      metadata |-> [source |-> "Oxford Handbook",
                    image_path |-> image_path_of(IMAGE_OUTPUT_FOLDER, 0, 0),
                    type |-> "image"]]}

EarlierCollection == [create_collection(DB_COLLECTION_NAME) EXCEPT !.docs = EarlierDocs]

Init ==
    /\ api_key \in {"unset", "", "AIza"}
    /\ pdf \in PDFs
    /\ pdf_ok \in BOOLEAN
    /\ db \in {NoCollection, EarlierCollection}
    /\ db_collection = "none"
    /\ calls = <<>>
    /\ stdout = <<>>
    /\ exit_code = -1
    /\ files = {}
    /\ pc = "main"
    /\ fn = "call"
    /\ raw_text_data = <<>>
    /\ text_cards = <<>>
    /\ image_file_paths = <<>>
    /\ image_cards = <<>>
    /\ img = 0
    /\ cards = <<>>
    /\ card_type = "none"
    /\ i = 0

\* --------------------------------------------------------------- main

\* the slip of `if api_key is None:`
ApiKeyIsNone(key) == key = "unset"

\* `if not api_key:` is taken for None and for the empty string
NotApiKey(key) == key \in {"unset", ""}

\* the slip of running the image pipeline before the text cards are stored
NextStatementImagesFirst(p) ==
    CASE p = "main" -> "initialize_database"
      [] p = "initialize_database" -> "extract_text_from_pdf"
      [] p = "extract_text_from_pdf" -> "create_text_cards"
      [] p = "create_text_cards" -> "extract_images_from_pdf"
      [] p = "extract_images_from_pdf" -> "create_image_cards"
      [] p = "create_image_cards" -> "store_text_cards"
      [] p = "store_text_cards" -> "store_image_cards"
      [] p = "store_image_cards" -> "report"
      [] p = "report" -> "done"

\* the statement of __main__ that follows the one at position p
NextStatement(p) ==
    CASE p = "main" -> "initialize_database"
      [] p = "initialize_database" -> "extract_text_from_pdf"
      [] p = "extract_text_from_pdf" -> "create_text_cards"
      [] p = "create_text_cards" -> "store_text_cards"
      [] p = "store_text_cards" -> "extract_images_from_pdf"
      [] p = "extract_images_from_pdf" -> "create_image_cards"
      [] p = "create_image_cards" -> "store_image_cards"
      [] p = "store_image_cards" -> "report"
      [] p = "report" -> "done"

\* the slip of catching the exception and going on
Swallowed == pc' = pc /\ exit_code' = exit_code /\ fn' = fn

\* an exception nobody catches ends the process with a traceback and status 1
Uncaught == pc' = "crashed" /\ exit_code' = 1 /\ fn' = "call"

main_missing_api_key ==
    /\ pc = "main"
    /\ NotApiKey(api_key)
    /\ stdout' = stdout \o <<Line("STARTING OFFLINE BUILD PROCESS", <<>>),
                             Line("ERROR: GOOGLE_API_KEY not found", <<>>),
                             Line("Please create a .env file", <<>>)>>
    /\ exit_code' = 1
    /\ pc' = "exited"
    /\ UNCHANGED <<api_key, pdf, pdf_ok, db, db_collection, calls, files, fn,
                   raw_text_data, text_cards, image_file_paths, image_cards, img,
                   cards, card_type, i>>

main_configure ==
    /\ pc = "main"
    /\ ~NotApiKey(api_key)
    /\ stdout' = Append(stdout, Line("STARTING OFFLINE BUILD PROCESS", <<>>))
    /\ pc' = NextStatement(pc)
    /\ UNCHANGED <<api_key, pdf, pdf_ok, db, db_collection, calls, exit_code, files,
                   fn, raw_text_data, text_cards, image_file_paths, image_cards,
                   img, cards, card_type, i>>

\* create_collection succeeds: the collection did not exist
initialize_database_created ==
    /\ pc = "initialize_database"
    /\ ~db.exists
    /\ db' = create_collection(DB_COLLECTION_NAME)
    /\ calls' = Append(calls, CreateCall("ok"))
    /\ db_collection' = DB_COLLECTION_NAME
    /\ stdout' = stdout \o <<Line("Setting up the database", <<>>),
                             Line("Created new collection", <<DB_COLLECTION_NAME>>)>>
    /\ pc' = NextStatement(pc)
    /\ UNCHANGED <<api_key, pdf, pdf_ok, exit_code, files, fn, raw_text_data,
                   text_cards, image_file_paths, image_cards, img, cards,
                   card_type, i>>

\* create_collection raises, get_collection finds the collection
initialize_database_existing ==
    /\ pc = "initialize_database"
    /\ db.exists
    /\ \E e \in CreateErrors :
          calls' = calls \o <<CreateCall(e), GetCall("ok")>>
    /\ db_collection' = DB_COLLECTION_NAME
    /\ stdout' = stdout \o <<Line("Setting up the database", <<>>),
                             Line("Using existing collection", <<DB_COLLECTION_NAME>>)>>
    /\ pc' = NextStatement(pc)
    /\ UNCHANGED <<api_key, pdf, pdf_ok, db, exit_code, files, fn, raw_text_data,
                   text_cards, image_file_paths, image_cards, img, cards,
                   card_type, i>>

\* create_collection raises and get_collection raises too (there is no
\* collection to get, or the database cannot be read)
initialize_database_raise ==
    /\ pc = "initialize_database"
    /\ \E e \in CreateErrors :
          /\ e = "already_exists" => db.exists
          /\ calls' = calls \o <<CreateCall(e), GetCall("error")>>
    /\ stdout' = Append(stdout, Line("Setting up the database", <<>>))
    /\ Uncaught
    /\ UNCHANGED <<api_key, pdf, pdf_ok, db, db_collection, files, raw_text_data,
                   text_cards, image_file_paths, image_cards, img, cards,
                   card_type, i>>

extract_text_from_pdf_return ==
    /\ pc = "extract_text_from_pdf"
    /\ pdf_ok
    /\ raw_text_data' = extract_text_from_pdf(pdf)
    /\ stdout' = stdout \o <<Line("Processing TEXT from the PDF", <<>>),
                             Line("Starting to extract text from pdf", <<>>),
                             Line("Finished extracting text from pdf",
                                  Str(Len(raw_text_data')))>>
    /\ pc' = NextStatement(pc)
    /\ UNCHANGED <<api_key, pdf, pdf_ok, db, db_collection, calls, exit_code, files,
                   fn, text_cards, image_file_paths, image_cards, img, cards,
                   card_type, i>>

\* pymupdf.open raises
extract_text_from_pdf_raise ==
    /\ pc = "extract_text_from_pdf"
    /\ ~pdf_ok
    /\ stdout' = stdout \o <<Line("Processing TEXT from the PDF", <<>>),
                             Line("Starting to extract text from pdf", <<>>)>>
    /\ Uncaught
    /\ UNCHANGED <<api_key, pdf, pdf_ok, db, db_collection, calls, files,
                   raw_text_data, text_cards, image_file_paths, image_cards, img,
                   cards, card_type, i>>

create_text_cards_return ==
    /\ pc = "create_text_cards"
    /\ text_cards' = create_text_cards(raw_text_data)
    /\ stdout' = stdout \o <<Line("Creating text cards", <<>>),
                             Line("Created text cards", Str(Len(text_cards')))>>
    /\ pc' = NextStatement(pc)
    /\ UNCHANGED <<api_key, pdf, pdf_ok, db, db_collection, calls, exit_code, files,
                   fn, raw_text_data, image_file_paths, image_cards, img, cards,
                   card_type, i>>

\* ----------------------------------------------- store_cards_in_database

AtStore == pc \in {"store_text_cards", "store_image_cards"}

\* the call: the arguments main passes, and the first print
store_cards_in_database_call ==
    /\ AtStore
    /\ fn = "call"
    /\ cards' = IF pc = "store_text_cards" THEN text_cards ELSE image_cards
    /\ card_type' = IF pc = "store_text_cards" THEN "text" ELSE "image"
    /\ i' = 0
    /\ stdout' = Append(stdout, Line("Storing cards in database",
                                     Str(Len(cards')) \o <<card_type'>>))
    /\ fn' = "loop"
    /\ UNCHANGED <<api_key, pdf, pdf_ok, db, db_collection, calls, exit_code, files,
                   pc, raw_text_data, text_cards, image_file_paths, image_cards, img>>

\* one turn of `for i in range(0, len(cards), batch_size)` whose add succeeds
store_cards_in_database_batch ==
    /\ AtStore
    /\ fn = "loop"
    /\ i < Len(cards)
    /\ LET batch == Batch(cards, i)
           documents == BatchDocuments(batch)
           metadatas == BatchMetadatas(batch)
           ids == BatchIds(batch, card_type, i)
       IN  /\ Distinct(ids)
           /\ db' = [db EXCEPT !.docs = CollectionAdd(db.docs, documents, metadatas, ids)]
           /\ calls' = Append(calls, AddCall(documents, metadatas, ids, "ok"))
    /\ stdout' = Append(stdout, Line("Stored batch",
                                     Str((i \div batch_size) + 1) \o <<card_type>>))
    /\ i' = i + batch_size
    /\ UNCHANGED <<api_key, pdf, pdf_ok, db_collection, exit_code, files, pc, fn,
                   raw_text_data, text_cards, image_file_paths, image_cards, img,
                   cards, card_type>>

\* one turn whose add raises (the embedding or the store fails, or the batch
\* repeats an id): nothing of the batch is stored and nothing catches it
store_cards_in_database_raise ==
    /\ AtStore
    /\ fn = "loop"
    /\ i < Len(cards)
    /\ LET batch == Batch(cards, i)
       IN  calls' = Append(calls, AddCall(BatchDocuments(batch), BatchMetadatas(batch),
                                           BatchIds(batch, card_type, i), "error"))
    /\ Uncaught
    /\ UNCHANGED <<api_key, pdf, pdf_ok, db, db_collection, stdout, files,
                   raw_text_data, text_cards, image_file_paths, image_cards, img,
                   cards, card_type, i>>

\* the range is exhausted
store_cards_in_database_return ==
    /\ AtStore
    /\ fn = "loop"
    /\ i >= Len(cards)
    /\ stdout' = Append(stdout, Line("Successfully stored all cards", <<card_type>>))
    /\ fn' = "call"
    /\ pc' = NextStatement(pc)
    /\ UNCHANGED <<api_key, pdf, pdf_ok, db, db_collection, calls, exit_code, files,
                   raw_text_data, text_cards, image_file_paths, image_cards, img,
                   cards, card_type, i>>

\* --------------------------------------------- extract_images_from_pdf

extract_images_from_pdf_return ==
    /\ pc = "extract_images_from_pdf"
    /\ image_file_paths' = extract_images_from_pdf(pdf, IMAGE_OUTPUT_FOLDER)
    /\ files' = files \cup Range(image_file_paths')
    /\ stdout' = stdout \o <<Line("Processing IMAGES from the PDF", <<>>),
                             Line("Extracting images from PDF", <<IMAGE_OUTPUT_FOLDER>>),
                             Line("Extracted images", Str(Len(image_file_paths')))>>
    /\ pc' = NextStatement(pc)
    /\ UNCHANGED <<api_key, pdf, pdf_ok, db, db_collection, calls, exit_code, fn,
                   raw_text_data, text_cards, image_cards, img, cards, card_type, i>>

\* doc.extract_image or the file write raises at the image after the first k
extract_images_from_pdf_raise ==
    /\ pc = "extract_images_from_pdf"
    /\ LET paths == extract_images_from_pdf(pdf, IMAGE_OUTPUT_FOLDER)
       IN  \E k \in 0..(Len(paths) - 1) :
              files' = files \cup Range(SubSeq(paths, 1, k))
    /\ stdout' = stdout \o <<Line("Processing IMAGES from the PDF", <<>>),
                             Line("Extracting images from PDF", <<IMAGE_OUTPUT_FOLDER>>)>>
    /\ Uncaught
    /\ UNCHANGED <<api_key, pdf, pdf_ok, db, db_collection, calls, raw_text_data,
                   text_cards, image_file_paths, image_cards, img, cards,
                   card_type, i>>

\* --------------------------------------------------- create_image_cards

Failed(outcome) == outcome \in {"load_error", "api_error"}

\* the body of `for image_path in image_paths`: the list after this image
describe_image(so_far, image_path, outcome) ==
    IF Failed(outcome) THEN so_far
    ELSE Append(so_far, ImageCardOf(Description(outcome), image_path))

\* the slip of `break` for `continue`: a failure ends the loop
after_image_break(taken, outcome, total) == IF Failed(outcome) THEN total ELSE taken + 1

\* `except Exception ... continue`: the number of images dealt with after this one
after_image(taken, outcome, total) == taken + 1

create_image_cards_call ==
    /\ pc = "create_image_cards"
    /\ fn = "call"
    /\ image_cards' = <<>>
    /\ img' = 0
    /\ stdout' = Append(stdout, Line("Creating image cards with AI descriptions", <<>>))
    /\ fn' = "loop"
    /\ UNCHANGED <<api_key, pdf, pdf_ok, db, db_collection, calls, exit_code, files,
                   pc, raw_text_data, text_cards, image_file_paths, cards,
                   card_type, i>>

create_image_cards_image ==
    /\ pc = "create_image_cards"
    /\ fn = "loop"
    /\ img < Len(image_file_paths)
    /\ \E outcome \in VisionOutcomes :
          LET image_path == image_file_paths[img + 1]
          IN  /\ image_cards' = describe_image(image_cards, image_path, outcome)
              /\ img' = after_image(img, outcome, Len(image_file_paths))
              /\ stdout' = Append(stdout,
                     IF Failed(outcome)
                     THEN Line("Error processing image", image_path)
                     ELSE Line("Processed image", image_path))
    /\ UNCHANGED <<api_key, pdf, pdf_ok, db, db_collection, calls, exit_code, files,
                   pc, fn, raw_text_data, text_cards, image_file_paths, cards,
                   card_type, i>>

create_image_cards_return ==
    /\ pc = "create_image_cards"
    /\ fn = "loop"
    /\ img >= Len(image_file_paths)
    /\ stdout' = Append(stdout, Line("Created image cards", Str(Len(image_cards))))
    /\ fn' = "call"
    /\ pc' = NextStatement(pc)
    /\ UNCHANGED <<api_key, pdf, pdf_ok, db, db_collection, calls, exit_code, files,
                   raw_text_data, text_cards, image_file_paths, image_cards, img,
                   cards, card_type, i>>

\* ------------------------------------------------------- end of __main__

report ==
    /\ pc = "report"
    /\ calls' = Append(calls, CountCall(Cardinality(db.docs)))
    /\ stdout' = stdout \o <<Line("OFFLINE BUILD PROCESS COMPLETE", <<>>),
                             Line("The brain is ready and stored", <<>>),
                             Line("Total items in the knowledge base",
                                  Str(Cardinality(db.docs)))>>
    /\ pc' = NextStatement(pc)
    /\ exit_code' = 0
    /\ UNCHANGED <<api_key, pdf, pdf_ok, db, db_collection, files, fn, raw_text_data,
                   text_cards, image_file_paths, image_cards, img, cards,
                   card_type, i>>

Next ==
    \/ main_missing_api_key
    \/ main_configure
    \/ initialize_database_created
    \/ initialize_database_existing
    \/ initialize_database_raise
    \/ extract_text_from_pdf_return
    \/ extract_text_from_pdf_raise
    \/ create_text_cards_return
    \/ store_cards_in_database_call
    \/ store_cards_in_database_batch
    \/ store_cards_in_database_raise
    \/ store_cards_in_database_return
    \/ extract_images_from_pdf_return
    \/ extract_images_from_pdf_raise
    \/ create_image_cards_call
    \/ create_image_cards_image
    \/ create_image_cards_return
    \/ report

Spec == Init /\ [][Next]_vars

\* ------------------------------------- one call of store_cards_in_database

\* a page whose text splits into n chunks
PageOfChunks(n) ==
    [text |-> [ws |-> 0,
               len |-> IF n = 0 THEN 0
                       ELSE chunk_size + (n - 1) * (chunk_size - chunk_overlap)],
     images |-> 0]

\* the cards of n images of one page, all described
DescribedImages(n) ==
    [k \in 1..n |-> ImageCardOf(Description("text"),
                                image_path_of(IMAGE_OUTPUT_FOLDER, 0, k - 1))]

\* main about to call store_cards_in_database on a collection just created,
\* with n cards of either type; calls and stdout are recorded from there on
InitStore ==
    /\ api_key = "AIza"
    /\ pdf_ok = TRUE
    /\ db = create_collection(DB_COLLECTION_NAME)
    /\ db_collection = DB_COLLECTION_NAME
    /\ calls = <<>>
    /\ stdout = <<>>
    /\ exit_code = -1
    /\ files = {}
    /\ fn = "call"
    /\ img = 0
    /\ cards = <<>>
    /\ card_type = "none"
    /\ i = 0
    /\ \E n \in 0..MaxCards :
          \/ /\ pc = "store_text_cards"
             /\ pdf = <<PageOfChunks(n)>>
             /\ raw_text_data = extract_text_from_pdf(pdf)
             /\ text_cards = create_text_cards(raw_text_data)
             /\ image_file_paths = <<>>
             /\ image_cards = <<>>
          \/ /\ pc = "store_image_cards"
             /\ pdf = <<[text |-> [ws |-> 0, len |-> 0], images |-> n]>>
             /\ raw_text_data = <<>>
             /\ text_cards = <<>>
             /\ image_file_paths = extract_images_from_pdf(pdf, IMAGE_OUTPUT_FOLDER)
             /\ image_cards = DescribedImages(n)

NextStore ==
    \/ store_cards_in_database_call
    \/ store_cards_in_database_batch
    \/ store_cards_in_database_raise
    \/ store_cards_in_database_return

SpecStore == InitStore /\ [][NextStore]_vars

\* ------------------------------------------------------------- claims

RECURSIVE Flatten(_)
Flatten(ss) == IF ss = <<>> THEN <<>> ELSE ss[1] \o Flatten(Tail(ss))

IsAdd(c) == c.op = "add"
AddCalls == SelectSeq(calls, IsAdd)
SubmittedIds == Flatten([k \in 1..Len(AddCalls) |-> AddCalls[k].ids])
SubmittedDocuments == Flatten([k \in 1..Len(AddCalls) |-> AddCalls[k].documents])
SubmittedMetadatas == Flatten([k \in 1..Len(AddCalls) |-> AddCalls[k].metadatas])

\* the id "{type}_{k}"
ExpectedId(type, k) == <<type, "_">> \o Str(k)

\* store_cards_in_database has returned to main (under SpecStore, where it is
\* the only call made)
StoreReturned == pc \in {"extract_images_from_pdf", "report"}

\* C1: one call of store_cards_in_database on an empty collection that does not
\* fail submits each of its N cards exactly once, in list order, in batches of
\* 1 to 100 cards, and leaves exactly N documents, the card at list position k
\* stored under the id {type}_k.
C1_StoreSubmitsEveryCardOnce ==
    StoreReturned =>
        LET given == IF card_type = "text" THEN text_cards ELSE image_cards
            N == Len(given)
        IN  /\ SubmittedIds = [k \in 1..N |-> ExpectedId(card_type, k - 1)]
            /\ SubmittedDocuments = [k \in 1..N |-> given[k].content]
            /\ SubmittedMetadatas = [k \in 1..N |-> given[k].metadata]
            /\ \A b \in 1..Len(AddCalls) :
                  /\ Len(AddCalls[b].ids) \in 1..batch_size
                  /\ AddCalls[b].result = "ok"
            /\ Cardinality(db.docs) = N
            /\ db.docs = {[id |-> ExpectedId(card_type, k - 1),
                           document |-> given[k].content,
                           metadata |-> given[k].metadata] : k \in 1..N}

\* three batches, the last one short, of image cards
C1_Witness ==
    /\ StoreReturned
    /\ card_type = "image"
    /\ Len(cards) > 2 * batch_size
    /\ Len(cards) % batch_size # 0
    /\ Len(AddCalls) = 3

\* C6: when the submission of a batch fails, that call of add is the last call
\* ever made (no later batch, no retry), the failure ends the run as an
\* uncaught exception, and the cards of the batches before it are stored.
C6_BatchFailureAborts ==
    \A k \in 1..Len(calls) :
        (calls[k].op = "add" /\ calls[k].result = "error") =>
            /\ k = Len(calls)
            /\ pc = "crashed"
            /\ exit_code = 1
            /\ \A b \in 1..(k - 1) :
                  calls[b].op = "add" =>
                      \A j \in 1..Len(calls[b].ids) :
                          [id |-> calls[b].ids[j], document |-> calls[b].documents[j],
                           metadata |-> calls[b].metadatas[j]] \in db.docs

\* the second of three batches failed: the first hundred cards are stored
C6_Witness ==
    /\ pc = "crashed"
    /\ Len(cards) > 2 * batch_size
    /\ Len(calls) = 2
    /\ calls[1].result = "ok"
    /\ calls[2].result = "error"
    /\ Cardinality(db.docs) = batch_size

\* ---------------------------------------------------- claims on a run

Printed(m) == \E k \in 1..Len(stdout) : stdout[k].msg = m

\* C3: extract_text_from_pdf emits exactly one PageRecord per page whose text
\* is neither empty nor only whitespace, in document order, with one-indexed
\* page numbers and the page's text.
C3_OneRecordPerNonBlankPage ==
    Printed("Finished extracting text from pdf") =>
        LET kept == {p \in 1..Len(pdf) : pdf[p].text.len > 0}
        IN  /\ Len(raw_text_data) = Cardinality(kept)
            /\ \A k \in 1..Len(raw_text_data) :
                  /\ raw_text_data[k].metadata.page \in kept
                  /\ raw_text_data[k].page_content = pdf[raw_text_data[k].metadata.page].text
            /\ \A a, b \in 1..Len(raw_text_data) :
                  a < b => raw_text_data[a].metadata.page < raw_text_data[b].metadata.page

\* C4: extract_images_from_pdf returns as many paths as the pages have images,
\* page after page and image after image, the image of index q of the page of
\* number p (counted from 1) at images/page_{p}_img_{q}.png, and no two paths
\* of the document are the same.
C4_ImagePathsPerPageAndIndex ==
    Printed("Extracted images") =>
        /\ Len(image_file_paths) = ImageCount(pdf)
        /\ \A p \in 1..Len(pdf) :
              \A q \in 0..(pdf[p].images - 1) :
                  image_file_paths[ImageCount(SubSeq(pdf, 1, p - 1)) + q + 1]
                      = <<"images", "/", "page_">> \o Str(p) \o <<"_img_">> \o Str(q)
                        \o <<".png">>
        /\ Cardinality(Range(image_file_paths)) = Len(image_file_paths)
        /\ files = Range(image_file_paths)

\* two pages with one image each: the same index on different pages
C4_Witness ==
    /\ Printed("Extracted images")
    /\ Len(pdf) = 2
    /\ pdf[1].images = 1
    /\ pdf[2].images = 1
    /\ Len(image_file_paths) = 2

IsImageLine(l) == l.msg \in {"Processed image", "Error processing image"}
IsProcessedLine(l) == l.msg = "Processed image"
ImageLines == SelectSeq(stdout, IsImageLine)
ProcessedLines == SelectSeq(stdout, IsProcessedLine)

C5_EveryImageTaken ==
    /\ Len(ImageLines) = img
    /\ \A k \in 1..Len(ImageLines) :
          ImageLines[k].arg = image_file_paths[k]
    /\ Len(image_cards) = Len(ProcessedLines)
    /\ \A k \in 1..Len(image_cards) :
          /\ image_cards[k].metadata.image_path = ProcessedLines[k].arg
          /\ image_cards[k].metadata.type = "image"
    /\ Printed("Created image cards") => img = Len(image_file_paths)

\* C5: create_image_cards takes every path in turn whatever failed before (one
\* line printed per image, for the paths in input order), holds exactly one
\* card per image that succeeded, in input order, and none for one that
\* failed, and never ends the run: from inside it main only goes on to the
\* statement after it.
C5_FailedImagesAreSkipped ==
    /\ C5_EveryImageTaken
    /\ (Printed("Creating image cards with AI descriptions")
          /\ ~Printed("Created image cards")) => pc = "create_image_cards"

\* the first image failed and the second was described
C5_Witness ==
    /\ Printed("Created image cards")
    /\ Len(ImageLines) = 2
    /\ ImageLines[1].msg = "Error processing image"
    /\ ImageLines[2].msg = "Processed image"
    /\ Len(image_cards) = 1

RECURSIVE ChunksBefore(_)
\* the number of chunks of the first p - 1 records of raw_text_data
ChunksBefore(p) ==
    IF p <= 1 THEN 0
    ELSE ChunksBefore(p - 1) + Len(split_text(raw_text_data[p - 1].page_content))

\* C9: create_text_cards returns the chunks of all records in record order
\* and, within a record, in chunk order; each card has the chunk as content,
\* the record's source and page, type "text", and as chunk_id its 0-based
\* position among the chunks of its own record.
C9_ChunkIdsRestartPerPage ==
    Printed("Created text cards") =>
        /\ Len(text_cards) = ChunksBefore(Len(raw_text_data) + 1)
        /\ \A p \in 1..Len(raw_text_data) :
              LET chunks == split_text(raw_text_data[p].page_content)
              IN  \A k \in 1..Len(chunks) :
                      text_cards[ChunksBefore(p) + k] =
                          [content |-> chunks[k],
                           metadata |-> [source |-> raw_text_data[p].metadata.source,
                                         page |-> raw_text_data[p].metadata.page,
                                         chunk_id |-> k - 1, type |-> "text"]]

\* two pages of three chunks each: the fourth card is chunk 0 of page 2
C9_Witness ==
    /\ Printed("Created text cards")
    /\ Len(text_cards) = 6
    /\ text_cards[3].metadata.chunk_id = 2
    /\ text_cards[4].metadata.chunk_id = 0
    /\ text_cards[4].metadata.page = 2

IsOkAdd(c) == c.op = "add" /\ c.result = "ok"
StoredIds ==
    LET ok == SelectSeq(calls, IsOkAdd)
    IN  Flatten([k \in 1..Len(ok) |-> ok[k].ids])

\* C2: every card stored in the collection has a non-empty content and an id
\* that no other stored card has, and no id is written twice in one run (so
\* the text call and the image call never write the same id).
C2_StoredCardsNonEmptyUniqueIds ==
    /\ \A d \in db.docs : d.document.len > 0
    /\ \A d, e \in db.docs : d.id = e.id => d = e
    /\ Cardinality(Range(StoredIds)) = Len(StoredIds)

\* C7, in every state: a handle, once held, is to the named collection, which
\* exists with the cosine metric; a creation attempt that raised, whatever it
\* raised, is followed by the attempt to get the collection; nothing is deleted.
C7_HandleIsCosineCollection ==
    /\ db_collection # "none" =>
          /\ db_collection = DB_COLLECTION_NAME
          /\ db.exists
          /\ db.name = DB_COLLECTION_NAME
          /\ db.metric = "cosine"
    /\ \A k \in 1..Len(calls) :
          /\ (calls[k].op = "create_collection" /\ calls[k].result # "ok") =>
                 (k < Len(calls) /\ calls[k + 1].op = "get_collection")
          /\ calls[k].op \in {"create_collection", "get_collection", "add", "count"}

\* C7, in every step of initialize_database: a collection that exists is left
\* as it is, cards included, and one that does not exist is, when a handle is
\* returned, created empty with the cosine metric; and in every step of the
\* run a collection that exists goes on existing with the cards it had.
C7_InitializeStep ==
    /\ (pc = "initialize_database" /\ db.exists) => db' = db
    /\ (pc = "initialize_database" /\ ~db.exists /\ db_collection' # "none") =>
          db' = [exists |-> TRUE, name |-> DB_COLLECTION_NAME, metric |-> "cosine",
                 docs |-> {}]
    /\ db.exists => (db'.exists /\ db'.metric = db.metric /\ db.docs \subseteq db'.docs)

\* C7: initialize_database returns a handle to the named collection with the
\* cosine metric, creating it when it does not exist and opening it with its
\* cards untouched when it does; any error of the creation attempt leads to
\* the open attempt; the collection is never deleted.
C7_CreateOrReopen == []C7_HandleIsCosineCollection /\ [][C7_InitializeStep]_vars

\* the creation attempt failed for a reason other than "already exists" and
\* the existing collection was opened with the earlier run's cards
C7_Witness ==
    /\ pc = "extract_text_from_pdf"
    /\ db_collection = DB_COLLECTION_NAME
    /\ Len(calls) = 2
    /\ calls[1].op = "create_collection"
    /\ calls[1].result = "error"
    /\ calls[2].op = "get_collection"
    /\ calls[2].result = "ok"
    /\ Cardinality(db.docs) = 2

\* C8: with GOOGLE_API_KEY absent or empty the run exits with status 1 after
\* printing the error message, and at no point has it made a call on the
\* database, opened the collection, read the PDF, written an image file or
\* stored a card.
C8_MissingKeyExitsFirst ==
    api_key \in {"unset", ""} =>
        /\ pc \in {"main", "exited"}
        /\ pc = "main" => exit_code = -1
        /\ pc = "exited" =>
              /\ exit_code = 1
              /\ Printed("ERROR: GOOGLE_API_KEY not found")
        /\ calls = <<>>
        /\ db_collection = "none"
        /\ db.docs \in {{}, EarlierDocs}
        /\ files = {}
        /\ ~Printed("Starting to extract text from pdf")
        /\ raw_text_data = <<>>
        /\ text_cards = <<>>
        /\ image_file_paths = <<>>
        /\ image_cards = <<>>

\* the key is set but empty, and the run has exited
C8_Witness == api_key = "" /\ pc = "exited" /\ exit_code = 1

\* the stage of the run a printed line belongs to: 0 the start, 1 opening the
\* collection, 2 extracting text, 3 chunking, 4 storing the text cards,
\* 5 extracting images, 6 describing images, 7 storing the image cards,
\* 8 the report
StageOf(l) ==
    CASE l.msg \in {"STARTING OFFLINE BUILD PROCESS", "ERROR: GOOGLE_API_KEY not found",
                    "Please create a .env file"} -> 0
      [] l.msg \in {"Setting up the database", "Created new collection",
                    "Using existing collection"} -> 1
      [] l.msg \in {"Processing TEXT from the PDF", "Starting to extract text from pdf",
                    "Finished extracting text from pdf"} -> 2
      [] l.msg \in {"Creating text cards", "Created text cards"} -> 3
      [] l.msg \in {"Storing cards in database", "Stored batch",
                    "Successfully stored all cards"} ->
             IF l.arg[Len(l.arg)] = "text" THEN 4 ELSE 7
      [] l.msg \in {"Processing IMAGES from the PDF", "Extracting images from PDF",
                    "Extracted images"} -> 5
      [] l.msg \in {"Creating image cards with AI descriptions", "Processed image",
                    "Error processing image", "Created image cards"} -> 6
      [] OTHER -> 8

\* the line a stage prints last
StageEnds ==
    {"STARTING OFFLINE BUILD PROCESS", "Created new collection",
     "Using existing collection", "Finished extracting text from pdf",
     "Created text cards", "Successfully stored all cards", "Extracted images",
     "Created image cards"}

Opens ==
    Cardinality({k \in 1..Len(calls) :
                    /\ calls[k].op \in {"create_collection", "get_collection"}
                    /\ calls[k].result = "ok"})

TextIdsStored == Cardinality({k \in 1..Len(StoredIds) : StoredIds[k][1] = "text"})

\* C10: the lines printed go through the stages in order, one stage at a time,
\* a stage's last line before the first line of the next; the collection is
\* opened at most once, and exactly once by the time text is extracted; an
\* image file, an image path or an image card exists only after the text store
\* has returned with every text card stored; a run that ends normally has
\* gone through every stage and ends with the count.
C10_StagesInOrder ==
    /\ \A k \in 1..(Len(stdout) - 1) :
          LET a == StageOf(stdout[k])
              b == StageOf(stdout[k + 1])
          IN  /\ a <= b
              /\ a < b => (b = a + 1 /\ stdout[k].msg \in StageEnds)
    /\ Opens <= 1
    /\ (\E k \in 1..Len(stdout) : StageOf(stdout[k]) >= 2) => Opens = 1
    /\ (\/ files # {}
        \/ image_file_paths # <<>>
        \/ image_cards # <<>>
        \/ \E k \in 1..Len(stdout) : StageOf(stdout[k]) >= 5) =>
          /\ \E k \in 1..Len(stdout) :
                stdout[k] = Line("Successfully stored all cards", <<"text">>)
          /\ TextIdsStored = Len(text_cards)
    /\ pc = "done" =>
          /\ {StageOf(stdout[k]) : k \in 1..Len(stdout)} = 0..8
          /\ calls[Len(calls)].op = "count"

\* a whole run that stored text cards, wrote image files and described images
C10_Witness ==
    /\ pc = "done"
    /\ text_cards # <<>>
    /\ files # {}
    /\ image_cards # <<>>
    /\ Opens = 1

=============================================================================
